---------------------------- MODULE Spec2Model ----------------------------
(***************************************************************************)
(* A model of the Bitcoin trust-network analysis library:                  *)
(*   src/src/data_preprocessing.py    (frames -> periods, nodes, graph)    *)
(*   src/src/network_analysis_utils.py (subgraph, centralities, means,     *)
(*                                      time series, summary statistics)   *)
(* Every function of the library is one action.  The caller's objects (the *)
(* DataFrame, the graph, the figure) are the state; a call reads them,     *)
(* mutates what the code mutates and leaves its return value, or the       *)
(* exception it raises, in ret.                                            *)
(***************************************************************************)
EXTENDS Integers, Sequences, FiniteSets, TLC

VARIABLES
    data,            \* the caller's DataFrame: [columns, rows]
    graph,           \* the caller's networkx graph: [directed, nodes, attr]
    negative_nodes,  \* the caller's array of negative node ids
    axs,             \* the three matplotlib axes: each a sequence of plotted lines
    call,            \* the last call made: its name and its scalar arguments
    ret,             \* what the last call returned or raised
    pc               \* the caller's position

vars == <<data, graph, negative_nodes, axs, call, ret, pc>>

(***************************************************************************)
(* Bounds of the model.                                                    *)
(***************************************************************************)
\* rows of a TIME frame
MaxRows == 3
\* timestamps are 0..MaxTime (seconds since the first possible one)
MaxTime == 6
\* num_periods is 0..MaxPeriods
MaxPeriods == 4
\* rows of an edge frame
MaxEdgeRows == 2
\* node ids of an edge frame are 1..MaxFrameNode
MaxFrameNode == 2
\* node ids of a graph built call by call are 1..MaxGraphNode
MaxGraphNode == 3
\* edges of a graph built call by call
MaxEdges == 2
\* length of a negative-node array passed by the caller
MaxListLen == 2
\* node ids of a per-node centrality map are 1..MaxMeanNode
MaxMeanNode == 2
\* records passed to time_series_centralities
MaxSeries == 2

(***************************************************************************)
(* Python values.                                                          *)
(***************************************************************************)
None == [kind |-> "None"]
Raise(e) == [kind |-> "raise", exc |-> e]
Unset == [kind |-> "unset"]

Range(s) == {s[i] : i \in 1..Len(s)}

SeqsUpTo(S, n) == UNION {[1..k -> S] : k \in 0..n}


Min(S) == CHOOSE x \in S : \A y \in S : x <= y
Max(S) == CHOOSE x \in S : \A y \in S : y <= x

(***************************************************************************)
(* DataFrames: an ordered list of column names and a sequence of rows,     *)
(* each row a function from the column names to values.                    *)
(***************************************************************************)
Frame(cols, rows) == [kind |-> "DataFrame", columns |-> cols, rows |-> rows]

Column(df, c) == [i \in 1..Len(df.rows) |-> df.rows[i][c]]

\* data[c] = values: the column is added in place (or overwritten)
SetColumn(df, c, values) ==
    Frame(IF c \in Range(df.columns) THEN df.columns ELSE Append(df.columns, c),
          [i \in 1..Len(df.rows) |->
              [k \in DOMAIN df.rows[i] \cup {c} |->
                  IF k = c THEN values[i] ELSE df.rows[i][k]]])

\* data.drop(c, axis=1): a new frame without the column
DropColumn(df, c) ==
    Frame(SelectSeq(df.columns, LAMBDA k : k # c),
          [i \in 1..Len(df.rows) |->
              [k \in DOMAIN df.rows[i] \ {c} |-> df.rows[i][k]]])

\* the frames of the doctest of divide_data_into_periods: one column, TIME
TimeFrames(maxRows) ==
    {Frame(<<"TIME">>, [i \in 1..Len(ts) |-> [c \in {"TIME"} |-> ts[i]]]) :
        ts \in SeqsUpTo(0..MaxTime, maxRows)}

(***************************************************************************)
(* pd.cut(x, bins=n, labels=False), right=True and include_lowest=False,   *)
(* the defaults.  Timestamps are whole seconds.  To stay in the integers   *)
(* every bin edge and timestamp is scaled by Scale(n) = 1000 * n.          *)
(***************************************************************************)
Scale(n) == 1000 * n

\* a faulty variant: interior edges at half the step, bins of unequal width
MutBinEdgeUnequal(mn, mx, n, i) ==
    IF mn = mx
    THEN Scale(n) * (mn - 1) + i * 2 * 1000
    ELSE Scale(n) * mn + (IF i = n THEN 2 * n ELSE i) * (mx - mn) * 500
         - (IF i = 0 THEN (mx - mn) * n ELSE 0)

\* the n+1 bin edges, scaled: linspace(mn, mx, n+1), then bins[0] -= 0.1% of
\* the range; when mn = mx the range is first widened by one second each side
\* and nothing is subtracted
BinEdge(mn, mx, n, i) ==
    IF mn = mx
    THEN Scale(n) * (mn - 1) + i * 2 * 1000
    ELSE Scale(n) * mn + i * (mx - mn) * 1000
         - (IF i = 0 THEN (mx - mn) * n ELSE 0)

\* bins.searchsorted(x, side="left"): the number of edges strictly below x
SearchSortedLeft(mn, mx, n, t) ==
    Cardinality({i \in 0..n : BinEdge(mn, mx, n, i) < Scale(n) * t})

NaN == [kind |-> "NaN"]

\* a faulty variant: bins closed on the left (right=False), the last one closed
\* on both ends
MutCutLabelLeftClosed(mn, mx, n, t) ==
    LET ids == Cardinality({i \in 0..n : BinEdge(mn, mx, n, i) <= Scale(n) * t})
    IN  IF t = mx /\ mn # mx THEN n - 1 ELSE ids - 1

\* the label of one value: ids - 1, NaN where ids is 0 or len(bins)
CutLabel(mn, mx, n, t) ==
    LET ids == SearchSortedLeft(mn, mx, n, t)
    IN  IF ids = 0 \/ ids = n + 1 THEN NaN ELSE ids - 1

\* pd.cut on a column: one label per row, or the ValueError it raises
Cut(x, n) ==
    IF n < 1 THEN Raise("ValueError")
    ELSE IF Len(x) = 0 THEN Raise("ValueError")
    ELSE LET mn == Min(Range(x))
             mx == Max(Range(x))
         IN  [kind |-> "Series",
              values |-> [i \in 1..Len(x) |-> CutLabel(mn, mx, n, x[i])]]

(***************************************************************************)
(* divide_data_into_periods(data, num_periods)                             *)
(*   data['PERIOD'] = pd.cut(data['TIME'], bins=num_periods, labels=False) *)
(*   data = data.drop('TIME', axis=1); return data                         *)
(* The first statement writes into the caller's frame; the second rebinds  *)
(* the local name to a new frame, which is returned.                       *)
(***************************************************************************)
divide_data_into_periods(num_periods) ==
    /\ pc = "start"
    /\ data.kind = "DataFrame"
    /\ "TIME" \in Range(data.columns)
    /\ LET cut == Cut(Column(data, "TIME"), num_periods)
       IN  IF cut.kind = "raise"
           THEN /\ ret' = cut
                /\ data' = data
           ELSE /\ data' = SetColumn(data, "PERIOD", cut.values)
                /\ ret' = DropColumn(data', "TIME")
    /\ call' = [op |-> "divide_data_into_periods", num_periods |-> num_periods]
    /\ pc' = "done"
    /\ UNCHANGED <<graph, negative_nodes, axs>>

InitPeriods ==
    /\ data \in TimeFrames(MaxRows)
    /\ graph = Unset
    /\ negative_nodes = Unset
    /\ axs = Unset
    /\ call = [op |-> "none"]
    /\ ret = Unset
    /\ pc = "start"

NextPeriods == \E n \in 0..MaxPeriods : divide_data_into_periods(n)

SpecPeriods == InitPeriods /\ [][NextPeriods]_vars

(***************************************************************************)
(* Edge frames: FROM_NODE, TO_NODE, TRUST_INDEX (already reduced to its    *)
(* sign by signed_data).                                                   *)
(***************************************************************************)
Signs == {-1, 0, 1}

EdgeColumns == <<"FROM_NODE", "TO_NODE", "TRUST_INDEX">>

EdgeRow(f, t, s) == [c \in Range(EdgeColumns) |->
                        IF c = "FROM_NODE" THEN f ELSE IF c = "TO_NODE" THEN t ELSE s]

EdgeRows == {EdgeRow(f, t, s) : f \in 1..MaxFrameNode, t \in 1..MaxFrameNode, s \in Signs}

\* the frame of the doctests of select_negative_nodes and create_direct_network
DoctestFrame ==
    Frame(EdgeColumns,
          <<EdgeRow(1, 2, 1), EdgeRow(2, 3, -1), EdgeRow(3, 4, 1), EdgeRow(4, 1, -1)>>)

EdgeFrames(maxRows) ==
    {Frame(EdgeColumns, rows) : rows \in SeqsUpTo(EdgeRows, maxRows)}
        \cup {DoctestFrame}

(***************************************************************************)
(* select_negative_nodes(data)                                             *)
(*   data_negative = data[data['TRUST_INDEX'] < 0]                         *)
(*   negative_nodes = data_negative['TO_NODE'].unique()                    *)
(***************************************************************************)
RECURSIVE Unique(_)
\* a faulty variant: the column as it is, repeated values kept
MutUniqueKeepAll(s) == s

\* Series.unique(): the distinct values in order of first appearance
Unique(s) ==
    IF s = <<>> THEN <<>>
    ELSE LET front == Unique(SubSeq(s, 1, Len(s) - 1))
             last == s[Len(s)]
         IN  IF last \in Range(front) THEN front ELSE Append(front, last)

\* data[data['TRUST_INDEX'] < 0]: a new frame of the rows with a negative sign
NegativeRows(df) ==
    Frame(df.columns, SelectSeq(df.rows, LAMBDA r : r["TRUST_INDEX"] < 0))

SelectNegativeNodes(df) ==
    [kind |-> "ndarray", values |-> Unique(Column(NegativeRows(df), "TO_NODE"))]

select_negative_nodes ==
    /\ pc = "start"
    /\ data.kind = "DataFrame"
    /\ {"TO_NODE", "TRUST_INDEX"} \subseteq Range(data.columns)
    /\ ret' = SelectNegativeNodes(data)
    /\ negative_nodes' = ret'
    /\ call' = [op |-> "select_negative_nodes"]
    /\ UNCHANGED <<data, graph, axs, pc>>

(***************************************************************************)
(* networkx graphs: the node set and, per edge, its attribute dictionary.  *)
(* An undirected graph holds each edge in both directions with the same    *)
(* attributes, as networkx's adjacency does.                               *)
(***************************************************************************)
EmptyGraph(directed) ==
    [kind |-> "graph", directed |-> directed, nodes |-> {}, attr |-> <<>>]

Edges(G) == DOMAIN G.attr

\* G.add_node(n)
AddNode(G, n) == [G EXCEPT !.nodes = @ \cup {n}]

\* G.add_edge(u, v, **attrs): both nodes are added if absent; the attributes of
\* an edge already there are updated
AddEdge(G, u, v, attrs) ==
    LET new == IF G.directed THEN {<<u, v>>} ELSE {<<u, v>>, <<v, u>>}
        old(e) == IF e \in DOMAIN G.attr THEN G.attr[e] ELSE <<>>
        upd(e) == [k \in DOMAIN old(e) \cup DOMAIN attrs |->
                      IF k \in DOMAIN attrs THEN attrs[k] ELSE old(e)[k]]
    IN  [G EXCEPT !.nodes = @ \cup {u, v},
                  !.attr = [e \in DOMAIN G.attr \cup new |->
                               IF e \in new THEN upd(e) ELSE G.attr[e]]]

(***************************************************************************)
(* create_direct_network(data)                                             *)
(*   nx.from_pandas_edgelist(data, 'FROM_NODE', 'TO_NODE',                 *)
(*       edge_attr='TRUST_INDEX', create_using=nx.DiGraph())               *)
(* For each row in order: g.add_edge(s, t), then g[s][t] is updated with   *)
(* the row's edge_attr columns, each under the name of its column.         *)
(***************************************************************************)
EdgeAttrs(row) == [k \in {"TRUST_INDEX"} |-> row[k]]

RECURSIVE FromPandasEdgelist(_, _)
FromPandasEdgelist(rows, directed) ==
    IF rows = <<>> THEN EmptyGraph(directed)
    ELSE LET G == FromPandasEdgelist(SubSeq(rows, 1, Len(rows) - 1), directed)
             row == rows[Len(rows)]
         IN  AddEdge(G, row["FROM_NODE"], row["TO_NODE"], EdgeAttrs(row))

CreateDirectNetwork(df) == FromPandasEdgelist(df.rows, TRUE)

create_direct_network ==
    /\ pc = "start"
    /\ data.kind = "DataFrame"
    /\ Range(EdgeColumns) \subseteq Range(data.columns)
    /\ ret' = CreateDirectNetwork(data)
    /\ graph' = ret'
    /\ call' = [op |-> "create_direct_network"]
    /\ UNCHANGED <<data, negative_nodes, axs, pc>>

InitEdges ==
    /\ data \in EdgeFrames(MaxEdgeRows)
    /\ graph = Unset
    /\ negative_nodes = Unset
    /\ axs = Unset
    /\ call = [op |-> "none"]
    /\ ret = Unset
    /\ pc = "start"

NextEdges ==
    \/ select_negative_nodes
    \/ create_direct_network

SpecEdges == InitEdges /\ [][NextEdges]_vars

(***************************************************************************)
(* Rationals, for the values networkx computes by division: [num, den] in  *)
(* lowest terms with den > 0.                                              *)
(***************************************************************************)
RECURSIVE Gcd(_, _)
Gcd(a, b) == IF b = 0 THEN a ELSE Gcd(b, a % b)

Abs(x) == IF x < 0 THEN -x ELSE x

Frac(n, d) ==
    LET g == Gcd(Abs(n), Abs(d))
        sgn == IF d < 0 THEN -1 ELSE 1
    IN  [kind |-> "float", num |-> sgn * (n \div g), den |-> sgn * (d \div g)]

FracAdd(a, b) == Frac(a.num * b.den + b.num * a.den, a.den * b.den)

FracLe(a, b) == a.num * b.den <= b.num * a.den

(***************************************************************************)
(* Graph measures of networkx, over the whole graph G.                     *)
(***************************************************************************)
Successors(G, u) == {v \in G.nodes : <<u, v>> \in Edges(G)}
Predecessors(G, v) == {u \in G.nodes : <<u, v>> \in Edges(G)}

\* G.number_of_edges(): an undirected edge is held in both directions
NumberOfEdges(G) ==
    IF G.directed THEN Cardinality(Edges(G))
    ELSE Cardinality({e \in Edges(G) : e[1] <= e[2]})

\* G.degree(v): in-degree plus out-degree for a DiGraph; for a Graph the number
\* of neighbours, a self-loop counting twice
Degree(G, v) ==
    IF G.directed
    THEN Cardinality(Successors(G, v)) + Cardinality(Predecessors(G, v))
    ELSE Cardinality(Successors(G, v)) + (IF <<v, v>> \in Edges(G) THEN 1 ELSE 0)

\* a faulty variant: for len(G) <= 1 the degree itself, not the constant 1
MutDegreeCentralityNoSingleCase(G) ==
    IF Cardinality(G.nodes) <= 1
    THEN [n \in G.nodes |-> Frac(Degree(G, n), 1)]
    ELSE [n \in G.nodes |-> Frac(Degree(G, n), Cardinality(G.nodes) - 1)]

\* a faulty variant: the degree, not divided by len(G) - 1
MutDegreeCentralityUnnormalized(G) == [n \in G.nodes |-> Frac(Degree(G, n), 1)]

\* nx.degree_centrality(G): {n: 1} when len(G) <= 1, else degree / (len(G) - 1)
DegreeCentrality(G) ==
    IF Cardinality(G.nodes) <= 1
    THEN [n \in G.nodes |-> Frac(1, 1)]
    ELSE [n \in G.nodes |-> Frac(Degree(G, n), Cardinality(G.nodes) - 1)]

\* the nodes within k steps of s along the edges
RECURSIVE Within(_, _, _)
Within(G, s, k) ==
    IF k = 0 THEN {s}
    ELSE LET W == Within(G, s, k - 1)
         IN  W \cup UNION {Successors(G, u) : u \in W}

Reachable(G, s) == Within(G, s, Cardinality(G.nodes))

\* breadth-first search from the nodes W, which are k steps from the source:
\* the number of steps at which t is first met (t reachable)
RECURSIVE Hops(_, _, _, _)
Hops(G, W, t, k) ==
    IF t \in W \/ k > Cardinality(G.nodes) THEN k
    ELSE Hops(G, W \cup UNION {Successors(G, u) : u \in W}, t, k + 1)

\* the shortest-path length from s to t (t reachable from s)
Dist(G, s, t) == Hops(G, {s}, t, 0)

\* the number of shortest paths from s to t (t reachable from s)
RECURSIVE Sigma(_, _, _)
RECURSIVE SigmaOver(_, _, _)
Sigma(G, s, t) ==
    IF s = t THEN 1
    ELSE LET d == Dist(G, s, t)
         IN  SigmaOver(G, s, {u \in Predecessors(G, t) \cap Reachable(G, s) :
                                 u # t /\ Dist(G, s, u) = d - 1})

\* the shortest paths from s to the nodes of B, summed
SigmaOver(G, s, B) ==
    IF B = {} THEN 0
    ELSE LET u == CHOOSE x \in B : TRUE
         IN  Sigma(G, s, u) + SigmaOver(G, s, B \ {u})

\* the number of shortest s-t paths through v
SigmaThrough(G, s, t, v) ==
    IF /\ v \in Reachable(G, s)
       /\ t \in Reachable(G, v)
       /\ Dist(G, s, v) + Dist(G, v, t) = Dist(G, s, t)
    THEN Sigma(G, s, v) * Sigma(G, v, t)
    ELSE 0

RECURSIVE SumFracs(_)
SumFracs(S) ==
    IF S = {} THEN Frac(0, 1)
    ELSE LET x == CHOOSE y \in S : TRUE
         IN  FracAdd(x[2], SumFracs(S \ {x}))

\* nx.betweenness_centrality(G): normalized, endpoints excluded, unweighted.
\* The sum runs over ordered pairs (s, t); it is scaled by 1/((n-1)(n-2)) when
\* n > 2 and left as it is otherwise.
BetweennessCentrality(G) ==
    LET n == Cardinality(G.nodes)
        pairs(v) == {p \in G.nodes \X G.nodes :
                        /\ p[1] # p[2] /\ p[1] # v /\ p[2] # v
                        /\ p[2] \in Reachable(G, p[1])}
        raw(v) == SumFracs({<<p, Frac(SigmaThrough(G, p[1], p[2], v),
                                       Sigma(G, p[1], p[2]))>> : p \in pairs(v)})
        scale == IF n > 2 THEN (n - 1) * (n - 2) ELSE 1
    IN  [v \in G.nodes |-> LET r == raw(v) IN Frac(r.num, r.den * scale)]

\* nx.eigenvector_centrality(G): a power iteration over real vectors, which the
\* model does not compute.  Its result is one of: the exception for an empty
\* graph, the exception for an iteration that did not converge within max_iter,
\* or a vector, of which the model keeps only what it was computed from.
EigenvectorValue(G, v) ==
    [kind |-> "float", eigenvector_of |-> v, nodes |-> G.nodes, edges |-> Edges(G)]

EigenvectorCentrality(G) ==
    IF G.nodes = {}
    THEN {Raise("NetworkXPointlessConcept")}
    ELSE {Raise("PowerIterationFailedConvergence"),
          [kind |-> "vector", map |-> [v \in G.nodes |-> EigenvectorValue(G, v)]]}

(***************************************************************************)
(* The caller builds a graph as the doctests do: nx.Graph() or nx.DiGraph()*)
(* (Init), then add_edge(u, v, weight=w) and add_node(n).  No function of  *)
(* the library reads a weight, so the model passes one value for w.        *)
(***************************************************************************)
GraphNodes == 1..MaxGraphNode

add_edge(u, v) ==
    /\ pc = "start"
    /\ graph.kind = "graph"
    /\ graph' = AddEdge(graph, u, v, [k \in {"weight"} |-> 1])
    /\ NumberOfEdges(graph') <= MaxEdges
    /\ graph' # graph
    /\ call' = [op |-> "add_edge"]
    /\ ret' = None
    /\ UNCHANGED <<data, negative_nodes, axs, pc>>

add_node(n) ==
    /\ pc = "start"
    /\ graph.kind = "graph"
    /\ graph' = AddNode(graph, n)
    /\ graph' # graph
    /\ call' = [op |-> "add_node"]
    /\ ret' = None
    /\ UNCHANGED <<data, negative_nodes, axs, pc>>

\* the negative-node arrays passed in: what select_negative_nodes returns, an
\* array without a repeated id (ids need not be nodes of the graph)
NodeLists ==
    {s \in SeqsUpTo(GraphNodes, MaxListLen) :
        \A i, j \in 1..Len(s) : i # j => s[i] # s[j]}

(***************************************************************************)
(* create_negative_nodes_subgraph(graph, negative_node_list)               *)
(*   Builds a local DiGraph: every listed node, then every edge of graph   *)
(*   with an endpoint in the list (without its attributes).  The function  *)
(*   ends without a return statement: the caller receives None and the     *)
(*   local graph is dropped.                                               *)
(***************************************************************************)
RECURSIVE AddNodes(_, _)
AddNodes(G, list) ==
    IF list = <<>> THEN G
    ELSE AddNode(AddNodes(G, SubSeq(list, 1, Len(list) - 1)), list[Len(list)])

RECURSIVE AddEdgesFrom(_, _)
AddEdgesFrom(G, E) ==
    IF E = {} THEN G
    ELSE LET e == CHOOSE x \in E : TRUE
         IN  AddEdge(AddEdgesFrom(G, E \ {e}), e[1], e[2], <<>>)

\* the local variable negative_nodes_graph at the end of the function
NegativeNodesGraph(G, list) ==
    AddEdgesFrom(AddNodes(EmptyGraph(TRUE), list),
                 {e \in Edges(G) : e[1] \in Range(list) \/ e[2] \in Range(list)})

create_negative_nodes_subgraph(list) ==
    /\ pc = "start"
    /\ graph.kind = "graph"
    /\ negative_nodes' = [kind |-> "ndarray", values |-> list]
    /\ call' = [op |-> "create_negative_nodes_subgraph",
                local |-> NegativeNodesGraph(graph, list)]
    /\ ret' = None
    /\ pc' = "done"
    /\ UNCHANGED <<data, graph, axs>>

(***************************************************************************)
(* calculate_centralities_negative_nodes(graph, negative_nodes_list)       *)
(*   The three measures are computed over the whole graph first; then each *)
(*   is filtered by {k: centralities[key][k] for k in negative_nodes_list},*)
(*   which raises KeyError at the first id that is no node of the graph.   *)
(***************************************************************************)
PyDict(f) == [kind |-> "dict", map |-> f]

FilterTo(map, list) == PyDict([k \in Range(list) |-> map[k]])

\* a faulty variant: ids that are no node are skipped, a partial map returned
MutCentralitiesResultPartial(G, list, eig) ==
    IF eig.kind = "raise" THEN eig
    ELSE LET present == SelectSeq(list, LAMBDA k : k \in G.nodes)
         IN  [kind |-> "dict",
              degree_centrality |-> FilterTo(DegreeCentrality(G), present),
              betweenness_centrality |-> FilterTo(BetweennessCentrality(G), present),
              eigenvector_centrality |-> FilterTo(eig.map, present)]

\* the returned record, or the exception: eig is what nx.eigenvector_centrality
\* gave
CentralitiesResult(G, list, eig) ==
    IF eig.kind = "raise" THEN eig
    ELSE IF ~(Range(list) \subseteq G.nodes) THEN Raise("KeyError")
    ELSE [kind |-> "dict",
          degree_centrality |-> FilterTo(DegreeCentrality(G), list),
          betweenness_centrality |-> FilterTo(BetweennessCentrality(G), list),
          eigenvector_centrality |-> FilterTo(eig.map, list)]

calculate_centralities_negative_nodes(list) ==
    /\ pc = "start"
    /\ graph.kind = "graph"
    /\ \E eig \in EigenvectorCentrality(graph) :
          ret' = CentralitiesResult(graph, list, eig)
    /\ negative_nodes' = [kind |-> "ndarray", values |-> list]
    /\ call' = [op |-> "calculate_centralities_negative_nodes"]
    /\ pc' = "done"
    /\ UNCHANGED <<data, graph, axs>>

(***************************************************************************)
(* calculate_network_summary_statistics(network_data)                      *)
(***************************************************************************)
PyInt(n) == [kind |-> "int", value |-> n]

\* a real number the model does not compute: only what it was computed from
Computed(name, G) ==
    [kind |-> "float", measure |-> name, nodes |-> G.nodes, edges |-> Edges(G)]

\* nx.density(G)
Density(G) ==
    LET n == Cardinality(G.nodes)
        m == NumberOfEdges(G)
    IN  IF m = 0 \/ n <= 1 THEN PyInt(0)
        ELSE Frac((IF G.directed THEN 1 ELSE 2) * m, n * (n - 1))

\* nx.number_connected_components(G), for an undirected graph
NumberConnectedComponents(G) == Cardinality({Reachable(G, v) : v \in G.nodes})

\* eccentricity finds a node that does not reach every node
InfinitePathLength(G) == \E v \in G.nodes : Reachable(G, v) # G.nodes

Eccentricity(G, v) == Max({Dist(G, v, t) : t \in G.nodes})

\* a faulty variant: NetworkXError for a graph of fewer than two nodes as well
MutDiameterNoneBelowTwoNodes(G) ==
    IF InfinitePathLength(G) \/ Cardinality(G.nodes) < 2
    THEN Raise("NetworkXError")
    ELSE PyInt(Max({Eccentricity(G, v) : v \in G.nodes}))

\* nx.diameter(G): NetworkXError when some node does not reach every node (the
\* graph is not connected, or the digraph not strongly connected)
Diameter(G) ==
    IF InfinitePathLength(G) THEN Raise("NetworkXError")
    ELSE PyInt(Max({Eccentricity(G, v) : v \in G.nodes}))

\* nx.average_shortest_path_length(G), called only when the diameter exists:
\* 0 for one node, else the sum of all distances over n(n-1)
AverageShortestPathLength(G) ==
    LET n == Cardinality(G.nodes)
        pairs == {p \in G.nodes \X G.nodes : p[1] # p[2]}
    IN  IF n = 1 THEN PyInt(0)
        ELSE SumFracs({<<p, Frac(Dist(G, p[1], p[2]), n * (n - 1))>> : p \in pairs})

\* the statistics dictionary, or the exception that ends the call:
\*   nx.average_clustering divides by the number of nodes;
\*   modularity (undirected graphs only) divides by the sum of the degrees;
\*   the NetworkXError of nx.diameter is caught and recorded as None
NetworkSummaryStatistics(G) ==
    IF G.nodes = {} THEN Raise("ZeroDivisionError")
    ELSE IF ~G.directed /\ Edges(G) = {} THEN Raise("ZeroDivisionError")
    ELSE LET diam == Diameter(G)
             diameter == IF diam.kind = "raise" THEN None ELSE diam
         IN  [kind |-> "dict",
              number_of_nodes |-> PyInt(Cardinality(G.nodes)),
              number_of_edges |-> PyInt(NumberOfEdges(G)),
              clustering_coefficient |-> Computed("average_clustering", G),
              modularity |-> IF G.directed THEN None ELSE Computed("modularity", G),
              connected_components |->
                  IF G.directed THEN None ELSE PyInt(NumberConnectedComponents(G)),
              edge_density |-> Density(G),
              diameter |-> diameter,
              average_shortest_path_length |->
                  IF diameter = None THEN None ELSE AverageShortestPathLength(G)]

\* plt.hist(degrees, bins=0,10,..,100): the degrees handed to the renderer
DegreeHistogram(G) == [kind |-> "hist", degrees |-> [n \in G.nodes |-> Degree(G, n)]]

calculate_network_summary_statistics ==
    /\ pc = "start"
    /\ graph.kind = "graph"
    /\ ret' = NetworkSummaryStatistics(graph)
    /\ axs' = IF ret'.kind = "raise" THEN axs ELSE DegreeHistogram(graph)
    /\ call' = [op |-> "calculate_network_summary_statistics"]
    /\ pc' = "done"
    /\ UNCHANGED <<data, graph, negative_nodes>>

InitGraph ==
    /\ data = Unset
    /\ graph \in {EmptyGraph(TRUE), EmptyGraph(FALSE)}
    /\ negative_nodes = Unset
    /\ axs = Unset
    /\ call = [op |-> "none"]
    /\ ret = Unset
    /\ pc = "start"

NextGraph ==
    \/ \E u, v \in GraphNodes : add_edge(u, v)
    \/ \E n \in GraphNodes : add_node(n)
    \/ \E list \in NodeLists : create_negative_nodes_subgraph(list)
    \/ \E list \in NodeLists : calculate_centralities_negative_nodes(list)
    \/ calculate_network_summary_statistics

SpecGraph == InitGraph /\ [][NextGraph]_vars

(***************************************************************************)
(* calculate_mean_centrality_negative_nodes(negative_nodes_centralities)   *)
(*   for key in d.keys(): mean[key] = np.mean(list(d[key].values()))       *)
(* np.mean of an empty list is nan (with a RuntimeWarning), not an error.  *)
(***************************************************************************)
Measures == <<"degree_centrality", "betweenness_centrality", "eigenvector_centrality">>

\* list(d.values()), in ascending key order
RECURSIVE ValuesOf(_)
ValuesOf(f) ==
    IF DOMAIN f = {} THEN <<>>
    ELSE LET k == Max(DOMAIN f)
         IN  Append(ValuesOf([j \in DOMAIN f \ {k} |-> f[j]]), f[k])

RECURSIVE SumFracSeq(_)
SumFracSeq(s) ==
    IF s = <<>> THEN Frac(0, 1) ELSE FracAdd(s[1], SumFracSeq(Tail(s)))

NpMean(values) ==
    IF values = <<>> THEN NaN
    ELSE LET total == SumFracSeq(values)
         IN  Frac(total.num, total.den * Len(values))

MeanCentrality(d) ==
    [kind |-> "dict",
     degree_centrality |-> NpMean(ValuesOf(d.degree_centrality.map)),
     betweenness_centrality |-> NpMean(ValuesOf(d.betweenness_centrality.map)),
     eigenvector_centrality |-> NpMean(ValuesOf(d.eigenvector_centrality.map))]

calculate_mean_centrality_negative_nodes(d) ==
    /\ pc = "start"
    /\ ret' = MeanCentrality(d)
    /\ call' = [op |-> "calculate_mean_centrality_negative_nodes", arg |-> d]
    /\ pc' = "done"
    /\ UNCHANGED <<data, graph, negative_nodes, axs>>

\* per-node centrality records as calculate_centralities_negative_nodes
\* returns them: three maps over the same node ids
MeanValues == {Frac(0, 1), Frac(1, 2)}

MeanNodeSets == SUBSET (1..MaxMeanNode)

CentralityDicts(S) ==
    {[kind |-> "dict", degree_centrality |-> PyDict(a),
      betweenness_centrality |-> PyDict(b),
      eigenvector_centrality |-> PyDict(c)] :
        a \in [S -> MeanValues], b \in [S -> MeanValues], c \in [S -> MeanValues]}

(***************************************************************************)
(* time_series_centralities, called with one positional argument per      *)
(* period:                                                                 *)
(*   fig, axs = plt.subplots(3); then, measure by measure and period by    *)
(*   period, axs[m].plot(list(centrality_dicts[i][measure].values()),      *)
(*   label='Period i'); set_title and legend per measure; plt.show().      *)
(* .values() exists on a dictionary only: on the float that                *)
(* calculate_mean_centrality_negative_nodes stores it raises               *)
(* AttributeError, after the lines plotted so far.                         *)
(***************************************************************************)
Field(d, m) ==
    IF Measures[m] = "degree_centrality" THEN d.degree_centrality
    ELSE IF Measures[m] = "betweenness_centrality" THEN d.betweenness_centrality
    ELSE d.eigenvector_centrality

\* the periods of measure m that are plotted: all before the first record
\* whose value is no dictionary
PlottedPeriods(ds, m) ==
    {i \in 1..Len(ds) : \A j \in 1..i : Field(ds[j], m).kind = "dict"}

PlotLines(ds, m) ==
    [i \in 1..Cardinality(PlottedPeriods(ds, m)) |->
        [label |-> i - 1, ydata |-> ValuesOf(Field(ds[i], m).map)]]

\* the first measure whose loop raises, or 0
FirstFailing(ds) ==
    LET bad == {m \in 1..3 : PlottedPeriods(ds, m) # 1..Len(ds)}
    IN  IF bad = {} THEN 0 ELSE Min(bad)

TimeSeriesAxes(ds) ==
    LET f == FirstFailing(ds)
    IN  [kind |-> "axes",
         lines |-> [m \in 1..3 |-> IF f = 0 \/ m <= f THEN PlotLines(ds, m) ELSE <<>>],
         titled |-> [m \in 1..3 |-> f = 0 \/ m < f],
         shown |-> f = 0]

time_series_centralities(ds) ==
    /\ pc = "start"
    /\ axs' = TimeSeriesAxes(ds)
    /\ ret' = IF FirstFailing(ds) = 0 THEN None ELSE Raise("AttributeError")
    /\ call' = [op |-> "time_series_centralities", arg |-> ds]
    /\ pc' = "done"
    /\ UNCHANGED <<data, graph, negative_nodes>>

\* what a caller passes: the aggregated record of a period (the doctest), or a
\* per-node record; here the three measures of a record share their values
TiedDicts ==
    UNION {{[kind |-> "dict", degree_centrality |-> PyDict(a),
             betweenness_centrality |-> PyDict(a),
             eigenvector_centrality |-> PyDict(a)] : a \in [S -> MeanValues]} :
           S \in MeanNodeSets}

AggregatedRecords == {MeanCentrality(d) : d \in TiedDicts}

SeriesArgs(maxLen) == SeqsUpTo(AggregatedRecords \cup TiedDicts, maxLen)

InitSeries ==
    /\ data = Unset
    /\ graph = Unset
    /\ negative_nodes = Unset
    /\ axs = Unset
    /\ call = [op |-> "none"]
    /\ ret = Unset
    /\ pc = "start"

NextSeries ==
    \/ \E S \in MeanNodeSets : \E d \in CentralityDicts(S) :
          calculate_mean_centrality_negative_nodes(d)
    \/ \E ds \in SeriesArgs(MaxSeries) : time_series_centralities(ds)

SpecSeries == InitSeries /\ [][NextSeries]_vars

(***************************************************************************)
(* Claims about divide_data_into_periods (checked under SpecPeriods).      *)
(***************************************************************************)
PeriodsCalled ==
    /\ pc = "done"
    /\ call.op = "divide_data_into_periods"
    /\ call.num_periods >= 1
    /\ Len(data.rows) > 0

PTimes == Column(data, "TIME")
PLabels == Column(ret, "PERIOD")
PMin == Min(Range(PTimes))
PMax == Max(Range(PTimes))
PN == call.num_periods

\* bin p of the cut, as a set of whole-second timestamps
InBin(p, t) ==
    /\ BinEdge(PMin, PMax, PN, p) < Scale(PN) * t
    /\ Scale(PN) * t <= BinEdge(PMin, PMax, PN, p + 1)

\* C1: for N >= 1 and a non-empty frame every row gets exactly one period index
\* in 0..N-1; the N bins cover [min, max] without gap or overlap (every timestamp
\* of the range is in exactly one bin, and a row's index is that bin); inside
\* [min, max] bin p is the p-th of N equal parts; and a later timestamp never
\* gets a smaller index.
C1_PeriodsPartition ==
    PeriodsCalled =>
        /\ ret.kind = "DataFrame"
        /\ Len(ret.rows) = Len(data.rows)
        /\ \A i \in 1..Len(ret.rows) : PLabels[i] \in 0..(PN - 1)
        /\ \A t \in PMin..PMax :
              Cardinality({p \in 0..(PN - 1) : InBin(p, t)}) = 1
        /\ \A i \in 1..Len(ret.rows) : InBin(PLabels[i], PTimes[i])
        /\ PMin < PMax =>
              \A i \in 1..Len(ret.rows) :
                 /\ PLabels[i] * (PMax - PMin) <= PN * (PTimes[i] - PMin)
                 /\ PN * (PTimes[i] - PMin) <= (PLabels[i] + 1) * (PMax - PMin)
        /\ \A i, j \in 1..Len(ret.rows) :
              PTimes[i] <= PTimes[j] => PLabels[i] <= PLabels[j]

\* C1 witness: a call with several periods that puts rows into different periods
C1_Witness ==
    /\ PeriodsCalled
    /\ ret.kind = "DataFrame"
    /\ PN >= 3
    /\ Cardinality(Range(PLabels)) >= 3

\* a timestamp on the interior boundary min + k * (max - min) / N
OnBoundary(t, k) == PN * (t - PMin) = k * (PMax - PMin)

\* C10 as stated: bins half-open on the right (a timestamp on the interior
\* boundary k gets index k), min -> 0, max -> N-1, and identical timestamps all
\* get index 0.
C10_HalfOpenRight ==
    PeriodsCalled =>
        /\ ret.kind = "DataFrame"
        /\ PMin < PMax =>
              \A i \in 1..Len(ret.rows) :
                 /\ \A k \in 1..(PN - 1) : OnBoundary(PTimes[i], k) => PLabels[i] = k
                 /\ PTimes[i] = PMin => PLabels[i] = 0
                 /\ PTimes[i] = PMax => PLabels[i] = PN - 1
        /\ PMin = PMax => \A i \in 1..Len(ret.rows) : PLabels[i] = 0

\* C10 amended: bins are closed on the right (first bin closed on both ends): a
\* timestamp on the interior boundary k gets index k - 1, min -> 0, max -> N-1;
\* identical timestamps all get the middle bin (N - 1) div 2, which is 0 only
\* for N <= 2.
C10_RightClosedBins ==
    PeriodsCalled =>
        /\ ret.kind = "DataFrame"
        /\ PMin < PMax =>
              \A i \in 1..Len(ret.rows) :
                 /\ \A k \in 1..(PN - 1) :
                       OnBoundary(PTimes[i], k) => PLabels[i] = k - 1
                 /\ PTimes[i] = PMin => PLabels[i] = 0
                 /\ PTimes[i] = PMax => PLabels[i] = PN - 1
        /\ PMin = PMax =>
              \A i \in 1..Len(ret.rows) : PLabels[i] = (PN - 1) \div 2

\* C10 witness: a row whose timestamp is on an interior boundary
C10_Witness ==
    /\ PeriodsCalled
    /\ ret.kind = "DataFrame"
    /\ PMin < PMax
    /\ \E i \in 1..Len(ret.rows) : \E k \in 1..(PN - 1) : OnBoundary(PTimes[i], k)

\* C11: divide_data_into_periods has no side effect on its input: no step
\* changes the caller's frame (no PERIOD column added, TIME still present).
C11_InputUnchanged == [][data' = data]_vars

\* what does hold: a call that returns leaves the caller's frame with its TIME
\* column and a new PERIOD column, which holds the labels that are returned;
\* a call that raises leaves the frame as it was
PeriodColumnAdded ==
    (pc = "done" /\ call.op = "divide_data_into_periods") =>
        IF ret.kind = "raise"
        THEN data.columns = <<"TIME">>
        ELSE /\ data.columns = <<"TIME", "PERIOD">>
             /\ ret.columns = <<"PERIOD">>
             /\ Column(data, "PERIOD") = Column(ret, "PERIOD")

(***************************************************************************)
(* Claims about select_negative_nodes and create_direct_network (checked   *)
(* under SpecEdges).                                                       *)
(***************************************************************************)
NegativeTargets(df) ==
    {df.rows[i]["TO_NODE"] : i \in {j \in 1..Len(df.rows) : df.rows[j]["TRUST_INDEX"] < 0}}

LastRowOf(df, e) ==
    df.rows[Max({i \in 1..Len(df.rows) :
                    <<df.rows[i]["FROM_NODE"], df.rows[i]["TO_NODE"]>> = e})]

FramePairs(df) ==
    {<<df.rows[i]["FROM_NODE"], df.rows[i]["TO_NODE"]>> : i \in 1..Len(df.rows)}

\* the part of C3 that does not name the attribute: the arcs are exactly the
\* ordered pairs of the frame, and each arc's one attribute holds the sign of
\* the last row for its pair
EdgeSetRoundTrip ==
    graph # Unset =>
        /\ Edges(graph) = FramePairs(data)
        /\ graph.nodes = UNION {{e[1], e[2]} : e \in FramePairs(data)}
        /\ \A e \in Edges(graph) :
              \E k \in DOMAIN graph.attr[e] :
                 graph.attr[e][k] = LastRowOf(data, e)["TRUST_INDEX"]

\* C3: the arcs of the built graph are exactly the ordered pairs of the frame
\* (no reverse arc, self-loops kept, one arc per pair) and each arc carries, as
\* its weight, the sign of the last row for its pair.
C3_WeightRoundTrip ==
    graph # Unset =>
        /\ Edges(graph) = FramePairs(data)
        /\ \A e \in Edges(graph) :
              /\ "weight" \in DOMAIN graph.attr[e]
              /\ graph.attr[e]["weight"] = LastRowOf(data, e)["TRUST_INDEX"]

(***************************************************************************)
(* Claims about the graph functions (checked under SpecGraph).             *)
(***************************************************************************)
Called(op) == pc = "done" /\ call.op = op

NodeCount == Cardinality(graph.nodes)

\* the arcs of the caller's graph that touch node k, counted at each end
InOutDegree(k) ==
    Cardinality({e \in DOMAIN graph.attr : e[1] = k})
        + Cardinality({e \in DOMAIN graph.attr : e[2] = k})

Touching(G, L) == {e \in Edges(G) : e[1] \in L \/ e[2] \in L}

\* C5: create_negative_nodes_subgraph returns a graph that has every node of
\* the negative-node array and exactly the edges of the full graph with an
\* endpoint in the array.
C5_SubgraphReturned ==
    Called("create_negative_nodes_subgraph") =>
        /\ ret.kind = "graph"
        /\ Range(negative_nodes.values) \subseteq ret.nodes
        /\ Edges(ret) = Touching(graph, Range(negative_nodes.values))

\* what does hold: the graph the function builds, and then drops, is the one C5
\* describes
LocalSubgraphBuilt ==
    Called("create_negative_nodes_subgraph") =>
        /\ ret = None
        /\ Range(negative_nodes.values) \subseteq call.local.nodes
        /\ Edges(call.local) = Touching(graph, Range(negative_nodes.values))

Disconnected(G) == \E u, v \in G.nodes : v \notin Reachable(G, u)

BothNone == ret.diameter = None /\ ret.average_shortest_path_length = None
BothPresent == ret.diameter # None /\ ret.average_shortest_path_length # None

C9_DegreeCentralityAtMostOne ==
    (Called("calculate_centralities_negative_nodes") /\ ret.kind = "dict" /\ NodeCount > 1) =>
        \A k \in DOMAIN ret.degree_centrality.map :
           /\ FracLe(Frac(0, 1), ret.degree_centrality.map[k])
           /\ FracLe(ret.degree_centrality.map[k], Frac(1, 1))

\* C9 amended: for n > 1 every returned degree centrality v satisfies
\* 0 <= v <= 2n/(n-1): the degree used is in-degree plus out-degree, at most
\* 2(n-1) for a node without a self-loop (v <= 2) and 2n with one; for an
\* undirected graph without self-loops v <= 1.
C9_DegreeCentralityAtMostTwo ==
    (Called("calculate_centralities_negative_nodes") /\ ret.kind = "dict" /\ NodeCount > 1) =>
        \A k \in DOMAIN ret.degree_centrality.map :
           LET v == ret.degree_centrality.map[k]
           IN  /\ FracLe(Frac(0, 1), v)
               /\ FracLe(v, Frac(2 * NodeCount, NodeCount - 1))
               /\ <<k, k>> \notin DOMAIN graph.attr => FracLe(v, Frac(2, 1))
               /\ (~graph.directed /\ \A j \in graph.nodes : <<j, j>> \notin DOMAIN graph.attr)
                     => FracLe(v, Frac(1, 1))

\* C9 witness: a returned degree centrality above 1
C9_Witness ==
    /\ Called("calculate_centralities_negative_nodes")
    /\ ret.kind = "dict"
    /\ NodeCount > 1
    /\ \E k \in DOMAIN ret.degree_centrality.map :
          ~FracLe(ret.degree_centrality.map[k], Frac(1, 1))

ArithmeticMean(f) ==
    LET total == SumFracs({<<k, f[k]>> : k \in DOMAIN f})
    IN  Frac(total.num, total.den * Cardinality(DOMAIN f))

\* C6: for a measure whose per-node map is empty the call fails with an error
\* (it returns neither a number nor NaN); for a non-empty map the mean returned
\* is the arithmetic mean of the map's values.
C6_EmptyMapRaises ==
    Called("calculate_mean_centrality_negative_nodes") =>
        IF \E m \in 1..3 : DOMAIN Field(call.arg, m).map = {}
        THEN ret.kind = "raise"
        ELSE /\ ret.kind = "dict"
             /\ \A m \in 1..3 : Field(ret, m) = ArithmeticMean(Field(call.arg, m).map)

\* what does hold: NaN for an empty map, the arithmetic mean otherwise
MeanOrNaN ==
    Called("calculate_mean_centrality_negative_nodes") =>
        /\ ret.kind = "dict"
        /\ \A m \in 1..3 :
              Field(ret, m) = IF DOMAIN Field(call.arg, m).map = {} THEN NaN
                              ELSE ArithmeticMean(Field(call.arg, m).map)

IsAggregated(d) == \A m \in 1..3 : Field(d, m).kind # "dict"

\* C7: given one aggregated record per period, in period order,
\* time_series_centralities completes without error and exposes for each
\* measure the sequence of that measure's values, entry i being period i's.
C7_SeriesOfAggregatedRecords ==
    (/\ Called("time_series_centralities")
     /\ \A i \in 1..Len(call.arg) : IsAggregated(call.arg[i])) =>
        /\ ret = None
        /\ \A m \in 1..3 :
              /\ Len(axs.lines[m]) = Len(call.arg)
              /\ \A i \in 1..Len(call.arg) :
                    /\ axs.lines[m][i].label = i - 1
                    /\ axs.lines[m][i].ydata = <<Field(call.arg[i], m)>>

\* what does hold: any aggregated record makes the call raise AttributeError
AggregatedRecordRaises ==
    Called("time_series_centralities") =>
        (ret = Raise("AttributeError")
            <=> \E i \in 1..Len(call.arg) : ~(\A m \in 1..3 : Field(call.arg[i], m).kind = "dict"))

=============================================================================
